---------------------------- MODULE Spec2Model ----------------------------
(***************************************************************************)
(* Model of the WeatherData repository: the Area Resolver                  *)
(* (src/src/transform_in_spark.py) and the Aggregator                      *)
(* (src/src/aggregate.py).                                                 *)
(*                                                                         *)
(* Python values whose type the code inspects with isinstance are carried  *)
(* as tagged records [k, v]: k is the Python type, v the payload.  A call  *)
(* either returns a value or raises; both outcomes are carried in a record *)
(* [exc, val].                                                             *)
(***************************************************************************)
EXTENDS Integers, Sequences, FiniteSets, TLC

VARIABLES lon, lat, geojson, sdf, call, ret

vars == <<lon, lat, geojson, sdf, call, ret>>

(***************************************************************************)
(* The cols module: the column names and the provenance tag.               *)
(***************************************************************************)
cols == [ sdo_id      |-> "sdo_id",
          year        |-> "year",
          county      |-> "county",
          temperature |-> "temperature",
          pivot_temp  |-> "pivot_temp",
          diff        |-> "diff",
          area        |-> "area",
          mean        |-> "mean",
          stddev      |-> "stddev",
          stations    |-> "stations",
          running     |-> "running",
          automated   |-> "automated" ]

(***************************************************************************)
(* Python values                                                           *)
(***************************************************************************)
Num(n)  == [k |-> "num",  v |-> <<n>>]
Str(s)  == [k |-> "str",  v |-> <<s>>]
List(s) == [k |-> "list", v |-> s]
None    == [k |-> "none", v |-> <<>>]

IsList(x) == x.k = "list"
IsNum(x)  == x.k = "num"

Returned(v) == [exc |-> "none", val |-> v]
Raised(e)   == [exc |-> e, val |-> <<>>]

ReturnedTrue(r)  == r.exc = "none" /\ r.val = TRUE
ReturnedFalse(r) == r.exc = "none" /\ r.val = FALSE
HasRaised(r)     == r.exc # "none"

(***************************************************************************)
(* shapely: Polygon(shell).contains(Point(lon, lat))                       *)
(* A ring is a Python list of [x, y] pairs; the shell is closed from its   *)
(* last vertex back to its first.  contains is true for points of the      *)
(* interior only: a point on the boundary is not contained.                *)
(***************************************************************************)
X(p) == p.v[1].v[1]
Y(p) == p.v[2].v[1]

IsCoordinate(p) ==
    /\ IsList(p)
    /\ Len(p.v) = 2
    /\ \A i \in 1..Len(p.v) : IsNum(p.v[i])

\* Polygon(shell) raises unless the shell is at least three numeric pairs.
ValidShell(shell) ==
    /\ Len(shell.v) >= 3
    /\ \A i \in 1..Len(shell.v) : IsCoordinate(shell.v[i])

NextVertex(shell, i) == shell.v[IF i = Len(shell.v) THEN 1 ELSE i + 1]

Cross(a, b, px, py) == (X(b) - X(a)) * (py - Y(a)) - (Y(b) - Y(a)) * (px - X(a))

Between(u, w, z) == (u <= z /\ z <= w) \/ (w <= z /\ z <= u)

OnSegment(a, b, px, py) ==
    /\ Cross(a, b, px, py) = 0
    /\ Between(X(a), X(b), px)
    /\ Between(Y(a), Y(b), py)

OnBoundary(shell, px, py) ==
    \E i \in 1..Len(shell.v) : OnSegment(shell.v[i], NextVertex(shell, i), px, py)

\* The edge a-b crosses the horizontal ray running from (px, py) to +infinity.
RayCrosses(a, b, px, py) ==
    /\ (Y(a) > py) # (Y(b) > py)
    /\ IF Y(b) > Y(a)
       THEN (px - X(a)) * (Y(b) - Y(a)) < (X(b) - X(a)) * (py - Y(a))
       ELSE (px - X(a)) * (Y(b) - Y(a)) > (X(b) - X(a)) * (py - Y(a))

Crossings(shell, px, py) ==
    Cardinality({i \in 1..Len(shell.v) :
                    RayCrosses(shell.v[i], NextVertex(shell, i), px, py)})

ShellContains(shell, px, py) ==
    /\ ~OnBoundary(shell, px, py)
    /\ Crossings(shell, px, py) % 2 = 1

\* poly = Polygon(polygon); return poly.contains( Point(lon, lat) )
PolygonContains(polygon, plon, plat) ==
    IF ~ValidShell(polygon) THEN Raised("ValueError")
    ELSE IF ~(IsNum(plon) /\ IsNum(plat)) THEN Raised("TypeError")
    ELSE Returned(ShellContains(polygon, plon.v[1], plat.v[1]))

(***************************************************************************)
(* transform_in_spark.check_in_polygons                                    *)
(* Every branch of the loop body returns, so the loop body runs for the    *)
(* first element only; an empty list falls through to the final return.    *)
(* Indexing an empty list raises IndexError.                               *)
(***************************************************************************)
\* Variant that tests every element of every level and joins the results
\* with a logical OR.
RECURSIVE check_in_polygons_any(_, _, _)
check_in_polygons_any(plon, plat, polygons) ==
    IF ~IsList(polygons) THEN Returned(FALSE)
    ELSE Returned(\E i \in 1..Len(polygons.v) :
             LET polygon == polygons.v[i] IN
             /\ IsList(polygon)
             /\ Len(polygon.v) > 0
             /\ IsList(polygon.v[1])
             /\ Len(polygon.v[1].v) > 0
             /\ IF ~IsList(polygon.v[1].v[1])
                THEN ReturnedTrue(PolygonContains(polygon, plon, plat))
                ELSE ReturnedTrue(check_in_polygons_any(plon, plat, polygon)))

RECURSIVE check_in_polygons(_, _, _)
check_in_polygons(plon, plat, polygons) ==
    IF ~IsList(polygons) THEN Returned(FALSE)
    ELSE IF Len(polygons.v) = 0 THEN Returned(FALSE)
    ELSE LET polygon == polygons.v[1] IN
         IF ~IsList(polygon) THEN Returned(FALSE)
         ELSE IF Len(polygon.v) = 0 THEN Raised("IndexError")
         ELSE IF ~IsList(polygon.v[1]) THEN Returned(FALSE)
         ELSE IF Len(polygon.v[1].v) = 0 THEN Raised("IndexError")
         ELSE IF ~IsList(polygon.v[1].v[1])
              THEN PolygonContains(polygon, plon, plat)
              ELSE check_in_polygons(plon, plat, polygon)

(***************************************************************************)
(* transform_in_spark.find_area                                            *)
(***************************************************************************)
automated == Str(cols.automated)

\* nation_dict = {'Germany': 'Deutschland'}
nation_dict(nation) ==
    IF nation = Str("Germany") THEN Str("Deutschland") ELSE nation

\* Variant that keeps scanning after a match: the last match wins.
RECURSIVE find_area_last(_, _, _, _)
find_area_last(plon, plat, features, i) ==
    IF i > Len(features) THEN Returned(<<None, None, None, automated>>)
    ELSE LET feature    == features[i]
             within_any == check_in_polygons(plon, plat,
                                             feature.geometry.coordinates)
             rest       == find_area_last(plon, plat, features, i + 1)
         IN  IF HasRaised(within_any) THEN within_any
             ELSE IF HasRaised(rest) THEN rest
             ELSE IF within_any.val /\ rest.val[1] = None
                  THEN Returned(<<nation_dict(feature.properties.NAME_0),
                                  feature.properties.NAME_1,
                                  feature.properties.NAME_3,
                                  automated>>)
                  ELSE rest

\* The loop over geojson['features'], from feature i on.
RECURSIVE find_area_from(_, _, _, _)
find_area_from(plon, plat, features, i) ==
    IF i > Len(features) THEN Returned(<<None, None, None, automated>>)
    ELSE LET feature    == features[i]
             within_any == check_in_polygons(plon, plat,
                                             feature.geometry.coordinates)
         IN  IF HasRaised(within_any) THEN within_any
             ELSE IF within_any.val
                  THEN Returned(<<nation_dict(feature.properties.NAME_0),
                                  feature.properties.NAME_1,
                                  feature.properties.NAME_3,
                                  automated>>)
                  ELSE find_area_from(plon, plat, features, i + 1)

find_area(plon, plat, gj) == find_area_from(plon, plat, gj.features, 1)

(***************************************************************************)
(* Inputs of the Area Resolver                                             *)
(***************************************************************************)
MaxFeatures == 2

Coordinate(x, y) == List(<<Num(x), Num(y)>>)
Ring(pts) == List([i \in 1..Len(pts) |-> Coordinate(pts[i][1], pts[i][2])])

SquareA  == Ring(<< <<0, 0>>, <<0, 10>>, <<10, 10>>, <<10, 0>> >>)
SquareB  == Ring(<< <<20, 0>>, <<20, 10>>, <<30, 10>>, <<30, 0>>, <<20, 0>> >>)
HoleA    == Ring(<< <<4, 4>>, <<6, 4>>, <<6, 6>>, <<4, 6>> >>)
Triangle == Ring(<< <<0, 0>>, <<10, 0>>, <<0, 10>>, <<0, 0>> >>)
TextRing == List(<< List(<<Str("a"), Str("b")>>), List(<<Str("c"), Str("d")>>),
                    List(<<Str("e"), Str("f")>>) >>)

\* The geometry coordinates a catalog feature may carry.
Geometries == <<
    List(<<SquareA>>),                                         \* polygon
    List(<<SquareA, HoleA>>),                                  \* polygon with a hole
    List(<<Triangle>>),
    List(<<List(<<SquareA>>), List(<<SquareB>>)>>),            \* multi-polygon
    List(<<List(<<SquareB>>), List(<<SquareA>>)>>),
    List(<<List(<<SquareA, HoleA>>), List(<<SquareB>>)>>),
    List(<<List(<<List(<<SquareB>>), List(<<SquareA>>)>>)>>),  \* deeper nesting
    Num(5),                                                    \* not a list
    List(<<>>),                                                \* empty list
    List(<<Num(1), SquareA>>),                                 \* first element no list
    SquareA,                                                   \* a bare ring
    List(<<List(<<>>)>>),                                      \* [[]]
    List(<<List(<<List(<<>>)>>)>>),                            \* [[[]]]
    List(<<TextRing>>)                                         \* non-numeric ring
>>

Properties == <<
    [NAME_0 |-> Str("Germany"), NAME_1 |-> Str("Bavaria"), NAME_3 |-> Str("Munich")],
    [NAME_0 |-> Str("Austria"), NAME_1 |-> Str("Germany"), NAME_3 |-> Str("Germany")]
>>

Feature(g, p) ==
    [geometry |-> [coordinates |-> Geometries[g]], properties |-> Properties[p]]

Features ==
    {Feature(g, p) : g \in 1..Len(Geometries), p \in 1..Len(Properties)}

Catalogs ==
    UNION {[1..n -> Features] : n \in 0..MaxFeatures}

\* (lon, lat) pairs: inside, outside and on the boundary of the rings above,
\* and non-numeric or missing coordinates.
Points == <<
    <<Num(5), Num(5)>>, <<Num(2), Num(2)>>, <<Num(25), Num(5)>>,
    <<Num(0), Num(5)>>, <<Num(50), Num(50)>>,
    <<Str("a"), Num(5)>>, <<None, None>>
>>

NoCall == [op |-> "none"]
NoRet  == Returned(<<>>)

InitResolver ==
    /\ \E i \in 1..Len(Points) : lon = Points[i][1] /\ lat = Points[i][2]
    /\ \E c \in Catalogs : geojson = [features |-> c]
    /\ sdf = <<>>
    /\ call = NoCall
    /\ ret = NoRet

CheckInPolygons ==
    \E i \in 1..Len(geojson.features) :
        LET polygons == geojson.features[i].geometry.coordinates IN
        /\ call' = [op |-> "check_in_polygons", polygons |-> polygons]
        /\ ret' = check_in_polygons(lon, lat, polygons)
        /\ UNCHANGED <<lon, lat, geojson, sdf>>

FindArea ==
    /\ call' = [op |-> "find_area"]
    /\ ret' = find_area(lon, lat, geojson)
    /\ UNCHANGED <<lon, lat, geojson, sdf>>

NextResolver == CheckInPolygons \/ FindArea

SpecResolver == InitResolver /\ [][NextResolver]_vars


(***************************************************************************)
(* Spark DataFrames                                                        *)
(* A DataFrame is a sequence of rows, a row a record of nullable columns.  *)
(* A column value is Null, <<>>, or Some(x), <<x>>.  A mean is carried as  *)
(* the exact fraction <<numerator, denominator>> in lowest terms, a        *)
(* standard deviation as Sqrt(q), the square root of the fraction q.       *)
(* toPandas collects the rows as they are: a null of a numeric column is   *)
(* NaN in pandas and stays Null here.                                      *)
(***************************************************************************)
Null    == <<>>
Some(x) == <<x>>

Abs(n) == IF n < 0 THEN -n ELSE n

RECURSIVE GCD(_, _)
GCD(a, b) == IF b = 0 THEN a ELSE GCD(b, a % b)

Frac(n, d) == LET g == GCD(Abs(n), d) IN <<n \div g, d \div g>>

Sqrt(q) == [sqrt |-> q]

RECURSIVE Sum(_)
Sum(xs) == IF Len(xs) = 0 THEN 0 ELSE Head(xs) + Sum(Tail(xs))

\* The non-null entries of column c.
Values(df, c) ==
    LET present == SelectSeq(df, LAMBDA r : r[c] # Null)
    IN  [i \in 1..Len(present) |-> present[i][c][1]]

\* pyspark.sql.functions.count: the number of non-null entries
count(df, c) == Len(Values(df, c))

\* pyspark.sql.functions.mean: null when there is no non-null entry
mean(df, c) ==
    LET xs == Values(df, c)
    IN  IF Len(xs) = 0 THEN Null ELSE Some(Frac(Sum(xs), Len(xs)))

\* Variant: the population standard deviation, 0 for a single entry.
stddev_pop(df, c) ==
    LET xs == Values(df, c)
        n  == Len(xs)
        sq == [i \in 1..n |-> xs[i] * xs[i]]
    IN  IF n < 1 THEN Null
        ELSE Some(Sqrt(Frac(n * Sum(sq) - Sum(xs) * Sum(xs), n * n)))

\* pyspark.sql.functions.stddev: the sample standard deviation, null for
\* fewer than two non-null entries (NaN after toPandas either way)
stddev(df, c) ==
    LET xs == Values(df, c)
        n  == Len(xs)
        sq == [i \in 1..n |-> xs[i] * xs[i]]
    IN  IF n < 2 THEN Null
        ELSE Some(Sqrt(Frac(n * Sum(sq) - Sum(xs) * Sum(xs), n * (n - 1))))

\* DataFrame.drop_duplicates([c]): one row per value of c, nulls being one value
RECURSIVE drop_duplicates_from(_, _, _)
drop_duplicates_from(df, c, i) ==
    IF i > Len(df) THEN <<>>
    ELSE (IF \E j \in 1..(i - 1) : df[j][c] = df[i][c] THEN <<>> ELSE <<df[i]>>)
         \o drop_duplicates_from(df, c, i + 1)

drop_duplicates(df, c) == drop_duplicates_from(df, c, 1)

\* df.groupby(by).agg(mean(value), stddev(value), count(value)): one row per
\* value of the grouping column, nulls forming a group of their own.
groupby_agg(df, by, value) ==
    LET firsts == drop_duplicates(df, by)
    IN  [i \in 1..Len(firsts) |->
            LET group == SelectSeq(df, LAMBDA r : r[by] = firsts[i][by])
            IN  (by :> firsts[i][by])
                @@ (cols.mean :> mean(group, value))
                @@ (cols.stddev :> stddev(group, value))
                @@ (cols.stations :> Some(count(group, value)))]

\* DataFrame.withColumnRenamed(old, new)
withColumnRenamed(df, old, new) ==
    [i \in 1..Len(df) |->
        IF old \in DOMAIN df[i]
        THEN [c \in (DOMAIN df[i] \ {old}) \cup {new} |->
                 IF c = new THEN df[i][old] ELSE df[i][c]]
        ELSE df[i]]

\* The rows of the left table, each once per right row of the same key, or
\* once when no right row has its key; a null key matches nothing.
RECURSIVE join_left_rows(_, _, _, _)
join_left_rows(left, right, on, i) ==
    IF i > Len(left) THEN <<>>
    ELSE LET matches == SelectSeq(right, LAMBDA r :
                            left[i][on] # Null /\ r[on] = left[i][on])
         IN  (IF Len(matches) = 0 THEN <<left[i]>>
              ELSE [j \in 1..Len(matches) |-> left[i]])
             \o join_left_rows(left, right, on, i + 1)

\* The rows of the one-columned right table whose key no left row has,
\* null in every column of the left table.
join_right_rows(left, columns, right, on) ==
    LET unmatched == SelectSeq(right, LAMBDA r :
                         r[on] = Null
                         \/ \A i \in 1..Len(left) : left[i][on] # r[on])
    IN  [j \in 1..Len(unmatched) |->
            [c \in columns |-> IF c = on THEN unmatched[j][on] ELSE Null]]

\* Variant: how = 'right', only the keys of the right table survive.
join_right(left, columns, right, on) ==
    LET matched == SelectSeq(left, LAMBDA l :
                       l[on] # Null /\ \E j \in 1..Len(right) : right[j][on] = l[on])
    IN  matched \o join_right_rows(left, columns, right, on)

\* left.join(right, on = on, how = 'outer'): the full outer join
join_outer(left, columns, right, on) ==
    join_left_rows(left, right, on, 1) \o join_right_rows(left, columns, right, on)

\* Variant: fillna(0) without a subset fills every column.
fillna_all(df, value, subset) ==
    [i \in 1..Len(df) |->
        [c \in DOMAIN df[i] |->
            IF df[i][c] = Null /\ c \in {cols.mean, cols.stddev, cols.stations}
            THEN Some(value) ELSE df[i][c]]]

\* DataFrame.fillna(value, subset)
fillna(df, value, subset) ==
    [i \in 1..Len(df) |->
        [c \in DOMAIN df[i] |->
            IF df[i][c] = Null /\ c = subset THEN Some(value) ELSE df[i][c]]]

\* Ascending order of a sort column: nulls first.
Precedes(a, b) == a = Null \/ (b # Null /\ a[1] <= b[1])

RECURSIVE insert_sorted(_, _, _)
insert_sorted(sorted, r, c) ==
    IF Len(sorted) = 0 THEN <<r>>
    ELSE IF Precedes(sorted[Len(sorted)][c], r[c]) THEN Append(sorted, r)
    ELSE Append(insert_sorted(SubSeq(sorted, 1, Len(sorted) - 1), r, c),
                sorted[Len(sorted)])

\* DataFrame.sort(c, ascending=True)
RECURSIVE sort_upto(_, _, _)
sort_upto(df, c, n) ==
    IF n = 0 THEN <<>> ELSE insert_sorted(sort_upto(df, c, n - 1), df[n], c)

sort(df, c) == sort_upto(df, c, Len(df))

\* col(c) == x: null compares equal to nothing
ColEquals(r, c, x) == r[c] # Null /\ r[c][1] = x

AggColumns(key) == {key, cols.mean, cols.stddev, cols.stations}

(***************************************************************************)
(* aggregate.aggregate_spatially                                           *)
(***************************************************************************)
aggregate_spatially(df, year, value_col_name, area_col_name, full_area_list) ==
    LET w1 == SelectSeq(df, LAMBDA r : r[area_col_name] # Null)
        w2 == SelectSeq(w1, LAMBDA r : ColEquals(r, cols.year, year))
        w3 == SelectSeq(w2, LAMBDA r : r[value_col_name] # Null)
        g  == groupby_agg(w3, area_col_name, value_col_name)
        rn == withColumnRenamed(g, area_col_name, cols.area)
        j  == join_outer(rn, AggColumns(cols.area), full_area_list, cols.area)
    IN  fillna(j, 0, cols.stations)

(***************************************************************************)
(* aggregate.aggregate_temporarly                                          *)
(***************************************************************************)
aggregate_temporarly(df, value_col_name, area, area_col_name, sdf_years) ==
    LET w == SelectSeq(df, LAMBDA r : ColEquals(r, area_col_name, area))
        g == groupby_agg(w, cols.year, value_col_name)
        j == join_outer(g, AggColumns(cols.year), sdf_years, cols.year)
    IN  sort(fillna(j, 0, cols.stations), cols.year)

(***************************************************************************)
(* aggregate.aggregate_running_mean                                        *)
(***************************************************************************)
RangeStart == -6

\* Window.orderBy(cols.year).rangeBetween(-6, Window.currentRow): the rows
\* whose year lies in [year - 6, year]; the rows of a null year are peers of
\* each other and of no other row.
window(df, r) ==
    SelectSeq(df, LAMBDA o :
        IF r[cols.year] = Null THEN o[cols.year] = Null
        ELSE /\ o[cols.year] # Null
             /\ o[cols.year][1] >= r[cols.year][1] + RangeStart
             /\ o[cols.year][1] <= r[cols.year][1])

aggregate_running_mean(df, value_col_name, area, area_col_name, sdf_years) ==
    LET w  == SelectSeq(df, LAMBDA r : ColEquals(r, area_col_name, area))
        wc == [i \in 1..Len(w) |->
                  w[i] @@ (cols.running :> mean(window(w, w[i]), value_col_name))]
        dd == drop_duplicates(wc, cols.year)
        s  == [i \in 1..Len(dd) |->
                  [c \in {cols.year, cols.running} |-> dd[i][c]]]
        j  == join_outer(s, {cols.year, cols.running}, sdf_years, cols.year)
    IN  sort(j, cols.year)

(***************************************************************************)
(* aggregate.aggregate_differences                                         *)
(***************************************************************************)
\* col(a) - col(b): null when either side is null
Minus(a, b) == IF a = Null \/ b = Null THEN Null ELSE Some(a[1] - b[1])

aggregate_differences(df, area, area_col_name, sdf_years) ==
    LET w  == SelectSeq(df, LAMBDA r : ColEquals(r, area_col_name, area))
        wc == [i \in 1..Len(w) |->
                  w[i] @@ (cols.diff :>
                      Minus(w[i][cols.temperature], w[i][cols.pivot_temp]))]
        g  == groupby_agg(wc, cols.year, cols.diff)
        j  == join_outer(g, AggColumns(cols.year), sdf_years, cols.year)
    IN  sort(fillna(j, 0, cols.stations), cols.year)

(***************************************************************************)
(* aggregate.get_pivotal_mean                                              *)
(***************************************************************************)
\* Variant: the end year is excluded.
get_pivotal_mean_open(df, start_year, end_year) ==
    LET w2     == SelectSeq(df, LAMBDA r :
                      /\ r[cols.year] # Null
                      /\ r[cols.year][1] >= start_year
                      /\ r[cols.year][1] < end_year)
        firsts == drop_duplicates(w2, cols.sdo_id)
    IN  [i \in 1..Len(firsts) |->
            LET group == SelectSeq(w2, LAMBDA r :
                             r[cols.sdo_id] = firsts[i][cols.sdo_id])
            IN  (cols.sdo_id :> firsts[i][cols.sdo_id])
                @@ (cols.pivot_temp :> mean(group, cols.temperature))]

get_pivotal_mean(df, start_year, end_year) ==
    LET w1     == SelectSeq(df, LAMBDA r :
                      r[cols.year] # Null /\ r[cols.year][1] >= start_year)
        w2     == SelectSeq(w1, LAMBDA r :
                      r[cols.year] # Null /\ r[cols.year][1] <= end_year)
        firsts == drop_duplicates(w2, cols.sdo_id)
    IN  [i \in 1..Len(firsts) |->
            LET group == SelectSeq(w2, LAMBDA r :
                             r[cols.sdo_id] = firsts[i][cols.sdo_id])
            IN  (cols.sdo_id :> firsts[i][cols.sdo_id])
                @@ (cols.pivot_temp :> mean(group, cols.temperature))]

(***************************************************************************)
(* Inputs of the Aggregator                                                *)
(***************************************************************************)
MaxRows == 3

Years        == <<2000, 2006, 2007>>
Areas        == <<"A", "B">>
Temperatures == <<10, 20>>
StationIds   == <<"s1", "s2">>
QueryAreas   == <<"A">>

\* Null, or one of the entries of xs
Nullable(xs) == {Null} \cup {Some(xs[i]) : i \in 1..Len(xs)}

Row(id, y, a, t, p) ==
    [sdo_id |-> id, year |-> y, county |-> a, temperature |-> t, pivot_temp |-> p]

\* Measurements of one station whose pivot temperature is known.
MeasurementRows ==
    {Row(Some(StationIds[1]), y, a, t, p) :
        y \in Nullable(Years), a \in Nullable(Areas),
        t \in Nullable(Temperatures), p \in {Some(Temperatures[1])}}

\* Observations of several stations in one area, before the pivot is known.
ObservationRows ==
    {Row(Some(StationIds[i]), y, Some(Areas[1]), t, Null) :
        i \in 1..Len(StationIds), y \in Nullable(Years),
        t \in Nullable(Temperatures)}

\* A DataFrame is a bag of rows: the rows are loaded in one fixed order of
\* the row universe (the position of the row in a fixed enumeration).
RECURSIVE SetToSeq(_)
SetToSeq(S) ==
    IF S = {} THEN <<>>
    ELSE LET x == CHOOSE x \in S : TRUE IN <<x>> \o SetToSeq(S \ {x})

MeasurementSeq == SetToSeq(MeasurementRows)
ObservationSeq == SetToSeq(ObservationRows)

Position(rows, r) == CHOOSE k \in 1..Len(rows) : rows[k] = r

\* The table is loaded first; each call is then made on the loaded table.
Idle == call.op = "none"

CanLoad(rows, k) ==
    /\ Idle
    /\ Len(sdf) < MaxRows
    /\ Len(sdf) > 0 => Position(rows, sdf[Len(sdf)]) <= k

OneColumn(c, xs) == [i \in 1..Len(xs) |-> (c :> Some(xs[i]))]

\* The full area lists and the full year lists: distinct, non-null keys.
AreaLists == { OneColumn(cols.area, <<Areas[1]>>), OneColumn(cols.area, Areas) }
YearLists == { OneColumn(cols.year, <<Years[2], Years[1]>>),
               OneColumn(cols.year, Years) }

InitAggregator ==
    /\ lon = None
    /\ lat = None
    /\ geojson = [features |-> <<>>]
    /\ sdf = <<>>
    /\ call = NoCall
    /\ ret = NoRet

LoadMeasurement ==
    \E k \in 1..Len(MeasurementSeq) :
        /\ CanLoad(MeasurementSeq, k)
        /\ sdf' = Append(sdf, MeasurementSeq[k])
        /\ call' = NoCall
        /\ ret' = NoRet
        /\ UNCHANGED <<lon, lat, geojson>>

AggregateSpatially ==
    \E y \in 1..2, l \in AreaLists :
        /\ Idle
        /\ call' = [op |-> "aggregate_spatially", year |-> Years[y],
                    value_col_name |-> cols.temperature,
                    area_col_name |-> cols.county, full_area_list |-> l]
        /\ ret' = Returned(aggregate_spatially(sdf, Years[y], cols.temperature,
                                               cols.county, l))
        /\ UNCHANGED <<lon, lat, geojson, sdf>>

AggregateTemporarly ==
    \E a \in 1..Len(QueryAreas), l \in YearLists :
        /\ Idle
        /\ call' = [op |-> "aggregate_temporarly",
                    value_col_name |-> cols.temperature, area |-> QueryAreas[a],
                    area_col_name |-> cols.county, sdf_years |-> l]
        /\ ret' = Returned(aggregate_temporarly(sdf, cols.temperature, QueryAreas[a],
                                                cols.county, l))
        /\ UNCHANGED <<lon, lat, geojson, sdf>>

AggregateRunningMean ==
    \E a \in 1..Len(QueryAreas), l \in YearLists :
        /\ Idle
        /\ call' = [op |-> "aggregate_running_mean",
                    value_col_name |-> cols.temperature, area |-> QueryAreas[a],
                    area_col_name |-> cols.county, sdf_years |-> l]
        /\ ret' = Returned(aggregate_running_mean(sdf, cols.temperature, QueryAreas[a],
                                                  cols.county, l))
        /\ UNCHANGED <<lon, lat, geojson, sdf>>

AggregateDifferences ==
    \E a \in 1..Len(QueryAreas), l \in YearLists :
        /\ Idle
        /\ call' = [op |-> "aggregate_differences", area |-> QueryAreas[a],
                    area_col_name |-> cols.county, sdf_years |-> l]
        /\ ret' = Returned(aggregate_differences(sdf, QueryAreas[a], cols.county, l))
        /\ UNCHANGED <<lon, lat, geojson, sdf>>

NextAggregator ==
    \/ LoadMeasurement
    \/ AggregateSpatially
    \/ AggregateTemporarly
    \/ AggregateRunningMean
    \/ AggregateDifferences

SpecAggregator == InitAggregator /\ [][NextAggregator]_vars

LoadObservation ==
    \E k \in 1..Len(ObservationSeq) :
        /\ CanLoad(ObservationSeq, k)
        /\ sdf' = Append(sdf, ObservationSeq[k])
        /\ call' = NoCall
        /\ ret' = NoRet
        /\ UNCHANGED <<lon, lat, geojson>>

GetPivotalMean ==
    \E s \in 1..Len(Years), e \in 1..Len(Years) :
        /\ Idle
        /\ call' = [op |-> "get_pivotal_mean", start_year |-> Years[s],
                    end_year |-> Years[e]]
        /\ ret' = Returned(get_pivotal_mean(sdf, Years[s], Years[e]))
        /\ UNCHANGED <<lon, lat, geojson, sdf>>

NextPivot == LoadObservation \/ GetPivotalMean

SpecPivot == InitAggregator /\ [][NextPivot]_vars

(***************************************************************************)
(* Properties of the Area Resolver                                         *)
(***************************************************************************)
IsRing(r) == IsList(r) /\ ValidShell(r)

\* A polygon: a non-empty list of rings, the outer boundary first.
IsPolygon(g) ==
    /\ IsList(g)
    /\ Len(g.v) > 0
    /\ \A i \in 1..Len(g.v) : IsRing(g.v[i])

\* A polygon, a multi-polygon, or a deeper nesting of those.
RECURSIVE WellFormedGeometry(_)
WellFormedGeometry(g) ==
    /\ IsList(g)
    /\ Len(g.v) > 0
    /\ \/ IsPolygon(g)
       \/ \A i \in 1..Len(g.v) : WellFormedGeometry(g.v[i])

NumericPoint == IsNum(lon) /\ IsNum(lat)

\* The point is in the outer boundary and in (or on) no hole.
InPolygon(g, px, py) ==
    /\ ShellContains(g.v[1], px, py)
    /\ \A i \in 2..Len(g.v) :
          ~ShellContains(g.v[i], px, py) /\ ~OnBoundary(g.v[i], px, py)

RECURSIVE AnyPolygonContains(_, _, _)
AnyPolygonContains(g, px, py) ==
    IF IsPolygon(g) THEN InPolygon(g, px, py)
    ELSE \E i \in 1..Len(g.v) : AnyPolygonContains(g.v[i], px, py)

\* The ring reached by descending into element 0 at every level.
RECURSIVE FirstRing(_)
FirstRing(g) == IF IsCoordinate(g.v[1]) THEN g ELSE FirstRing(g.v[1])

Reports(i) ==
    check_in_polygons(lon, lat, geojson.features[i].geometry.coordinates)

ExpectedNation(name) ==
    IF name = Str("Germany") THEN Str("Deutschland") ELSE name

NamesOf(i) ==
    LET p == geojson.features[i].properties
    IN  <<ExpectedNation(p.NAME_0), p.NAME_1, p.NAME_3, automated>>

\* C1: find_area returns the names of the first feature, in catalog order,
\* that check_in_polygons reports as containing the point (nation translated,
\* state and county verbatim), whatever the later features are; when every
\* feature is reported as not containing the point it returns
\* (None, None, None, automated).
C1_FindAreaFirstMatch ==
    call.op = "find_area" =>
        /\ \A i \in 1..Len(geojson.features) :
              (/\ ReturnedTrue(Reports(i))
               /\ \A j \in 1..(i - 1) : ReturnedFalse(Reports(j)))
              => ret = Returned(NamesOf(i))
        /\ (\A i \in 1..Len(geojson.features) : ReturnedFalse(Reports(i)))
              => ret = Returned(<<None, None, None, automated>>)

\* Two features contain the point, the first one is in Germany and the
\* second one carries other names: the first one's names come back.
C1_Witness ==
    /\ call.op = "find_area"
    /\ Len(geojson.features) = 2
    /\ ReturnedTrue(Reports(1))
    /\ ReturnedTrue(Reports(2))
    /\ geojson.features[1].properties.NAME_0 = Str("Germany")
    /\ geojson.features[2].properties.NAME_0 # Str("Germany")
    /\ ret = Returned(<<Str("Deutschland"), Str("Bavaria"), Str("Munich"), automated>>)

\* C2: for a well-formed geometry and a numeric point, check_in_polygons
\* returns True if and only if at least one polygon of the geometry contains
\* the point.
C2_TrueIffSomePolygonContains ==
    (call.op = "check_in_polygons" /\ NumericPoint
        /\ WellFormedGeometry(call.polygons))
    => /\ ~HasRaised(ret)
       /\ ret.val = AnyPolygonContains(call.polygons, lon.v[1], lat.v[1])

\* C3: the Area Resolver never raises: check_in_polygons answers False for
\* malformed geometry and for non-numeric or missing coordinates, and
\* find_area returns a tuple.
C3_NeverRaises ==
    /\ ~HasRaised(ret)
    /\ (call.op = "check_in_polygons"
          /\ (~NumericPoint \/ ~WellFormedGeometry(call.polygons)))
       => ReturnedFalse(ret)

\* C8: for a well-formed geometry and a numeric point, the result of
\* check_in_polygons is the containment test against the ring reached by
\* descending into element 0 at every level; no other element matters.
C8_FirstElementOnly ==
    (call.op = "check_in_polygons" /\ NumericPoint
        /\ WellFormedGeometry(call.polygons))
    => ret = Returned(ShellContains(FirstRing(call.polygons), lon.v[1], lat.v[1]))

\* A point that lies only in the second polygon of a multi-polygon is
\* reported as not contained.
C8_Witness ==
    /\ call.op = "check_in_polygons"
    /\ NumericPoint
    /\ WellFormedGeometry(call.polygons)
    /\ ~IsPolygon(call.polygons)
    /\ Len(call.polygons.v) = 2
    /\ AnyPolygonContains(call.polygons.v[2], lon.v[1], lat.v[1])
    /\ ~AnyPolygonContains(call.polygons.v[1], lon.v[1], lat.v[1])
    /\ ReturnedFalse(ret)

(***************************************************************************)
(* Properties of the Aggregator                                            *)
(***************************************************************************)
Out == ret.val

Spatial     == call.op = "aggregate_spatially"
Temporal    == call.op = "aggregate_temporarly"
Running     == call.op = "aggregate_running_mean"
Differences == call.op = "aggregate_differences"

ReportsStddev == Spatial \/ Temporal \/ Differences
Aggregation   == ReportsStddev \/ Running

KeyColumn  == IF Spatial THEN "area" ELSE "year"
FullDomain == IF Spatial THEN call.full_area_list ELSE call.sdf_years
DomainKeys == {FullDomain[i][KeyColumn] : i \in 1..Len(FullDomain)}
OutKeys    == {Out[i][KeyColumn] : i \in 1..Len(Out)}

\* The rows of the raw table that the call reads for its group key k.
RowsOfKey(k) ==
    IF Spatial
    THEN {j \in 1..Len(sdf) : sdf[j].county = k /\ sdf[j].year = Some(call.year)}
    ELSE {j \in 1..Len(sdf) : sdf[j].county = Some(call.area) /\ sdf[j].year = k}

\* The value the call aggregates in row j of the raw table.
QueriedValue(r) ==
    IF Differences
    THEN (IF r.temperature = Null \/ r.pivot_temp = Null THEN Null
          ELSE Some(r.temperature[1] - r.pivot_temp[1]))
    ELSE r.temperature

Contributing(k) == {j \in RowsOfKey(k) : QueriedValue(sdf[j]) # Null}

RECURSIVE Total(_)
Total(J) ==
    IF J = {} THEN 0
    ELSE LET j == CHOOSE j \in J : TRUE
         IN  QueriedValue(sdf[j])[1] + Total(J \ {j})

\* m is the arithmetic mean of the queried values of the rows J, null for none.
IsMeanOf(m, J) ==
    IF J = {} THEN m = Null
    ELSE m # Null /\ m[1][1] * Cardinality(J) = Total(J) * m[1][2]

\* C4: spatial, temporal and difference aggregation give every key of the
\* full domain exactly one output row, whose count is never null; a key
\* without contributing data has null mean, null stddev and count 0.
C4_OneRowPerDomainKey ==
    ReportsStddev =>
        \A k \in DomainKeys :
            /\ Cardinality({i \in 1..Len(Out) : Out[i][KeyColumn] = k}) = 1
            /\ \A i \in 1..Len(Out) :
                  Out[i][KeyColumn] = k =>
                      /\ Out[i].stations # Null
                      /\ Contributing(k) = {} =>
                            /\ Out[i].mean = Null
                            /\ Out[i].stddev = Null
                            /\ Out[i].stations = Some(0)

\* Area A has the values 10 and 20 in 2000 and nothing in 2006: the rows are
\* (2000, 15, sqrt 50, 2) and (2006, null, null, 0).
C4_Witness ==
    /\ Temporal
    /\ Len(sdf) = 2
    /\ DomainKeys = {Some(2000), Some(2006)}
    /\ Len(Out) = 2
    /\ Out[1].year = Some(2000)
    /\ Out[1].mean = Some(<<15, 1>>)
    /\ Out[1].stddev = Some(Sqrt(<<50, 1>>))
    /\ Out[1].stations = Some(2)
    /\ Out[2].year = Some(2006)
    /\ Out[2].mean = Null
    /\ Out[2].stddev = Null
    /\ Out[2].stations = Some(0)

\* C5: in the output of aggregate_running_mean, the running value of every
\* year Y of the full year list is the mean of the non-null values of the
\* rows of the area with a year in [Y - 6, Y], null only when there is none.
C5_RunningMeanOfEveryDomainYear ==
    Running =>
        \A k \in DomainKeys :
            /\ \E i \in 1..Len(Out) : Out[i].year = k
            /\ \A i \in 1..Len(Out) :
                  Out[i].year = k =>
                      IsMeanOf(Out[i].running,
                               {j \in 1..Len(sdf) :
                                   /\ sdf[j].county = Some(call.area)
                                   /\ sdf[j].year # Null
                                   /\ sdf[j].year[1] >= k[1] - 6
                                   /\ sdf[j].year[1] <= k[1]
                                   /\ sdf[j].temperature # Null})

\* C6: every output row of an aggregation that reports a stddev whose
\* station count is below 2 has a null stddev.
C6_StddevNullBelowTwo ==
    ReportsStddev =>
        \A i \in 1..Len(Out) :
            (Out[i].stations # Null /\ Out[i].stations[1] < 2)
            => Out[i].stddev = Null

\* A group of one station: the mean is defined, the stddev is null.
C6_Witness ==
    /\ ReportsStddev
    /\ \E i \in 1..Len(Out) :
          /\ Out[i].stations = Some(1)
          /\ Out[i].mean # Null
          /\ Out[i].stddev = Null
    /\ \E i \in 1..Len(Out) :
          /\ Out[i].stations = Some(2)
          /\ Out[i].stddev = Some(Sqrt(<<0, 1>>))

\* The stations with an observation in [start_year, end_year].
InInterval(j) ==
    /\ sdf[j].year # Null
    /\ call.start_year <= sdf[j].year[1]
    /\ sdf[j].year[1] <= call.end_year

ObservationsOf(id) ==
    {j \in 1..Len(sdf) : InInterval(j) /\ sdf[j].sdo_id = id}

\* C7: get_pivotal_mean returns one row for each station that has an
\* observation in [start_year, end_year] and none for any other station; the
\* pivot is the mean of the station's temperatures inside the interval, the
\* single value when there is one observation.
C7_PivotOfStationsInInterval ==
    call.op = "get_pivotal_mean" =>
        /\ \A i, j \in 1..Len(Out) : Out[i].sdo_id = Out[j].sdo_id => i = j
        /\ {Out[i].sdo_id : i \in 1..Len(Out)}
              = {sdf[j].sdo_id : j \in {j \in 1..Len(sdf) : InInterval(j)}}
        /\ \A i \in 1..Len(Out) :
              LET obs == ObservationsOf(Out[i].sdo_id)
              IN  /\ IsMeanOf(Out[i].pivot_temp,
                              {j \in obs : sdf[j].temperature # Null})
                  /\ \A j \in obs :
                        (obs = {j} /\ sdf[j].temperature # Null)
                        => Out[i].pivot_temp = Some(<<sdf[j].temperature[1], 1>>)

\* Station s1 has one observation inside the interval and a different one
\* outside, station s2 only one outside: s1 alone is returned, with the
\* inside value.
C7_Witness ==
    /\ call.op = "get_pivotal_mean"
    /\ call.start_year = 2000
    /\ call.end_year = 2006
    /\ Len(sdf) = 3
    /\ \E j \in 1..Len(sdf) :
          sdf[j] = Row(Some("s1"), Some(2006), Some("A"), Some(10), Null)
    /\ \E j \in 1..Len(sdf) :
          sdf[j] = Row(Some("s1"), Some(2007), Some("A"), Some(20), Null)
    /\ \E j \in 1..Len(sdf) :
          sdf[j] = Row(Some("s2"), Some(2007), Some("A"), Some(20), Null)
    /\ Len(Out) = 1
    /\ Out[1].sdo_id = Some("s1")
    /\ Out[1].pivot_temp = Some(<<10, 1>>)

\* The keys of the groups the call forms from the raw table.
GroupKeys ==
    IF Spatial
    THEN {sdf[j].county : j \in {j \in 1..Len(sdf) :
              /\ sdf[j].county # Null
              /\ sdf[j].year = Some(call.year)
              /\ sdf[j].temperature # Null}}
    ELSE {sdf[j].year : j \in {j \in 1..Len(sdf) :
              sdf[j].county = Some(call.area)}}

\* C9 as claimed: the keys of the output are exactly the keys of the full
\* area/year list.
C9_KeysEqualDomain == Aggregation => OutKeys = DomainKeys

\* C9 as amended: the keys of the output are the keys of the full area/year
\* list together with the keys of the groups formed from the raw table.
C9_KeysAreDomainAndGroups ==
    Aggregation => OutKeys = DomainKeys \cup GroupKeys

\* Area B has data but is not in the full area list: it is in the output,
\* beside area A of the list, which has none.
C9_Witness ==
    /\ Spatial
    /\ DomainKeys = {Some("A")}
    /\ OutKeys = {Some("A"), Some("B")}
    /\ \E i \in 1..Len(Out) : Out[i].area = Some("A") /\ Out[i].stations = Some(0)
    /\ \E i \in 1..Len(Out) : Out[i].area = Some("B") /\ Out[i].stations = Some(1)

\* The call of the current state, made on the table df.
Recomputed(df) ==
    IF Spatial
    THEN aggregate_spatially(df, call.year, call.value_col_name,
                             call.area_col_name, call.full_area_list)
    ELSE IF Temporal
    THEN aggregate_temporarly(df, call.value_col_name, call.area,
                              call.area_col_name, call.sdf_years)
    ELSE IF Running
    THEN aggregate_running_mean(df, call.value_col_name, call.area,
                                call.area_col_name, call.sdf_years)
    ELSE aggregate_differences(df, call.area, call.area_col_name, call.sdf_years)

Occurrences(df, r) == Cardinality({i \in 1..Len(df) : df[i] = r})

SameRows(a, b) ==
    /\ Len(a) = Len(b)
    /\ \A i \in 1..Len(a) : Occurrences(a, a[i]) = Occurrences(b, a[i])

\* C10: adding a row whose queried value or whose area is null to the input
\* table leaves the output of every aggregation unchanged.
C10_NullRowsChangeNothing ==
    Aggregation =>
        \A r \in MeasurementRows :
            (QueriedValue(r) = Null \/ r.county = Null)
            => SameRows(Recomputed(Append(sdf, r)), Out)

=============================================================================
